---- MODULE Spec2Model ----
(***************************************************************************)
(* A model of resources/basemode.py: class RadioBaseMode, the base class   *)
(* of the radio's modes.  The state is the fields of one mode instance     *)
(* (pi, led_pin, display_q, menu, modemenu), the objects of the menu tree  *)
(* it owns, the GPIO writes and queue entries it has issued, and the       *)
(* outcome of the last call.  Every method is one action.                  *)
(*                                                                         *)
(* The classes RadioSubmenu, RadioMenuItem and RadioMenuMode come from     *)
(* resources/menubase.py; their constructors, add_item and add_back_item   *)
(* are modelled from the specification's description of the menu nodes.    *)
(***************************************************************************)
EXTENDS Integers, Sequences, FiniteSets, TLC

VARIABLES
    pi,          \* self.pi: TRUE when a pigpio handle was given, FALSE for None
    led_pin,     \* self.led_pin: a pin number, or NoPin for None
    has_q,       \* self.display_q is a Queue (TRUE) or None (FALSE)
    display_q,   \* contents of the display queue, oldest first
    menu,        \* self.menu, the class attribute a subclass supplies
    modemenu,    \* self.modemenu: id of the root node, 0 while the attribute is unset
    nodes,       \* the menu objects of the tree self.modemenu refers to, by id
    pin_modes,   \* pins pi.set_mode(pin, OUTPUT) was called on
    writes,      \* the pi.write(pin, value) calls issued, in order
    toggles,     \* arguments of the toggle_led calls made, in order
    shows,       \* arguments of the show_text calls made, in order
    san_x,       \* argument of the last remove_accents call
    san_once,    \* its outcome
    san_twice,   \* outcome of remove_accents applied to that outcome
    lastop,      \* name of the last method called
    err          \* exception that call raised, "none" when it returned

vars == <<pi, led_pin, has_q, display_q, menu, modemenu, nodes, pin_modes,
          writes, toggles, shows, san_x, san_once, san_twice, lastop, err>>

(***************************************************************************)
(* Bounds of the model.                                                    *)
(***************************************************************************)
MaxEntries == 4     \* (label, target) entries of a menu, all levels together
MaxCalls == 3       \* toggle_led / show_text calls in one behaviour
MaxTextLen == 2     \* characters of a text handed to remove_accents

(***************************************************************************)
(* Menu specifications: self.menu.                                         *)
(* A target is a record [type, id, entries]: a function (an action), an    *)
(* int, a list or a tuple of entries.  An entry of a menu is a             *)
(* (text, target) pair, or an element that is no pair.                     *)
(***************************************************************************)
Fn(n) == [type |-> "function", id |-> n, entries |-> <<>>]
IntTarget(n) == [type |-> "int", id |-> n, entries |-> <<>>]
ListTarget(es) == [type |-> "list", id |-> 0, entries |-> es]
TupleTarget(es) == [type |-> "tuple", id |-> 0, entries |-> es]
BackTarget == [type |-> "back", id |-> 0, entries |-> <<>>]
NoTarget == [type |-> "None", id |-> 0, entries |-> <<>>]
UnsetMenu == [type |-> "unset", id |-> 0, entries |-> <<>>]

Pair(text, target) == [pair |-> TRUE, text |-> text, target |-> target]
NotAPair == [pair |-> FALSE, text |-> "", target |-> IntTarget(7)]

LeafEntries ==
    { Pair("Play", Fn(1)), Pair("Back", Fn(2)), Pair("Volume", IntTarget(5)),
      NotAPair }

RECURSIVE MenusOfSize(_)
EntriesOfSize(s) ==
    IF s = 1
    THEN LeafEntries \cup { Pair("Settings", ListTarget(<<>>)),
                            Pair("Settings", TupleTarget(<<>>)) }
    ELSE { Pair("Settings", ListTarget(m)) : m \in MenusOfSize(s - 1) }
         \cup { Pair("Settings", TupleTarget(m)) : m \in MenusOfSize(s - 1) }

MenusOfSize(n) ==
    IF n = 0
    THEN { <<>> }
    ELSE UNION { { <<e>> \o rest : e \in EntriesOfSize(s),
                                   rest \in MenusOfSize(n - s) } : s \in 1..n }

\* P holds of some value of self.menu: the attribute unset, None, or a list
\* of up to MaxEntries entries in all
ForSomeMenu(P(_)) ==
    \/ \E m \in { UnsetMenu, NoTarget, ListTarget(<<>>) } : P(m)
    \/ \E n \in 1..MaxEntries : \E s \in 1..n :
          \E e \in EntriesOfSize(s), rest \in MenusOfSize(n - s) :
              P(ListTarget(<<e>> \o rest))

(***************************************************************************)
(* Menu objects (resources/menubase.py).                                   *)
(***************************************************************************)
RadioMenuMode ==
    [cls |-> "RadioMenuMode", text |-> "", target |-> NoTarget,
     items |-> <<>>, parent |-> 0]
RadioSubmenu(text) ==
    [cls |-> "RadioSubmenu", text |-> text, target |-> NoTarget,
     items |-> <<>>, parent |-> 0]
RadioMenuItem(text, target) ==
    [cls |-> "RadioMenuItem", text |-> text, target |-> target,
     items |-> <<>>, parent |-> 0]

\* isinstance(parent, RadioSubmenu)
IsRadioSubmenu(h, n) == h[n].cls = "RadioSubmenu"

\* parent.add_item(child): appended last, and the child learns its parent
add_item(h, p, c) ==
    [h EXCEPT ![p].items = Append(@, c), ![c].parent = p]

\* parent.add_back_item(): a trailing "Back" item bound to the submenu
add_back_item(h, s) ==
    add_item(Append(h, RadioMenuItem("Back", BackTarget)), s, Len(h) + 1)

\* activating an item: a Back item yields the parent of the submenu it is in
Activate(h, i) ==
    IF h[i].target.type = "back" THEN h[h[i].parent].parent ELSE 0

(***************************************************************************)
(* RadioBaseMode._walk_menu                                                *)
(* The heap h holds the objects created so far; the result is the heap     *)
(* after the walk and the exception raised, if any.  The method returns    *)
(* its parent argument.                                                    *)
(***************************************************************************)
Returned(h) == [heap |-> h, err |-> "none"]
Raised(h, e) == [heap |-> h, err |-> e]

\* type(target) == list
IsSubmenuTarget(target) == target.type = "list"

RECURSIVE WalkMenu(_, _, _), WalkItems(_, _, _, _)

\* WalkItems with a plain item put in front of its parent's items
WalkItems_ItemsInFront(h, es, i, parent) ==
    IF i > Len(es)
    THEN Returned(h)
    ELSE IF ~es[i].pair
    THEN Raised(h, "TypeError")
    ELSE IF IsSubmenuTarget(es[i].target)
    THEN LET sub == Len(h) + 1
             r == WalkMenu(Append(h, RadioSubmenu(es[i].text)),
                           es[i].target.entries, sub)
         IN  IF r.err # "none"
             THEN r
             ELSE WalkItems(add_item(r.heap, parent, sub), es, i + 1, parent)
    ELSE LET item == Len(h) + 1
             h1 == Append(h, RadioMenuItem(es[i].text, es[i].target))
         IN  WalkItems([h1 EXCEPT ![parent].items = <<item>> \o @,
                                  ![item].parent = parent],
                       es, i + 1, parent)

\* the loop "for text, target in menu", from entry i on
WalkItems(h, es, i, parent) ==
    IF i > Len(es)
    THEN Returned(h)
    ELSE IF ~es[i].pair
    THEN Raised(h, "TypeError")
    ELSE IF IsSubmenuTarget(es[i].target)
    THEN LET sub == Len(h) + 1
             r == WalkMenu(Append(h, RadioSubmenu(es[i].text)),
                           es[i].target.entries, sub)
         IN  IF r.err # "none"
             THEN r
             ELSE WalkItems(add_item(r.heap, parent, sub), es, i + 1, parent)
    ELSE LET item == Len(h) + 1
         IN  WalkItems(add_item(Append(h, RadioMenuItem(es[i].text, es[i].target)),
                                parent, item),
                       es, i + 1, parent)

\* WalkMenu that gives no Back item to a submenu whose menu is empty
WalkMenu_NoBackWhenEmpty(h, es, parent) ==
    LET r == WalkItems(h, es, 1, parent)
    IN  IF r.err # "none"
        THEN r
        ELSE IF es # <<>> /\ IsRadioSubmenu(r.heap, parent)
        THEN Returned(add_back_item(r.heap, parent))
        ELSE r

\* WalkMenu that gives every parent a Back item, the root included
WalkMenu_BackEverywhere(h, es, parent) ==
    LET r == WalkItems(h, es, 1, parent)
    IN  IF r.err # "none"
        THEN r
        ELSE Returned(add_back_item(r.heap, parent))

WalkMenu(h, es, parent) ==
    LET r == WalkItems(h, es, 1, parent)
    IN  IF r.err # "none"
        THEN r
        ELSE IF IsRadioSubmenu(r.heap, parent)
        THEN Returned(add_back_item(r.heap, parent))
        ELSE r

(***************************************************************************)
(* RadioBaseMode._get_menu_items and build_menu                            *)
(***************************************************************************)
\* "if self.menu": reading an attribute no class defines raises
MenuTruthy(m) == m.type = "list" /\ Len(m.entries) > 0

get_menu_items(m) ==
    IF m.type = "unset"
    THEN Raised(<<RadioMenuMode>>, "AttributeError")
    ELSE IF MenuTruthy(m)
    THEN WalkMenu(<<RadioMenuMode>>, m.entries, 1)
    ELSE Returned(<<RadioMenuMode>>)

build_menu ==
    LET r == get_menu_items(menu)
    IN  /\ lastop' = "build_menu"
        /\ err' = r.err
        /\ IF r.err = "none"
           THEN nodes' = r.heap /\ modemenu' = 1
           ELSE UNCHANGED <<nodes, modemenu>>
        /\ UNCHANGED <<pi, led_pin, has_q, display_q, menu, pin_modes, writes,
                       toggles, shows, san_x, san_once, san_twice>>

(***************************************************************************)
(* Texts and mappings handed to remove_accents.                            *)
(* The code is Python 2: a str is a sequence of bytes, a unicode a         *)
(* sequence of code points.  Data is a record [type, chars, map]; a dict   *)
(* keeps its values in map, a function of its keys.                        *)
(***************************************************************************)
Str(cs) == [type |-> "str", chars |-> cs, map |-> <<>>]
Unicode(cs) == [type |-> "unicode", chars |-> cs, map |-> <<>>]
Dict(f) == [type |-> "dict", chars |-> <<>>, map |-> f]
NoData == [type |-> "None", chars |-> <<>>, map |-> <<>>]

\* e, e-acute, combining acute accent, the ligature fi, a CJK ideograph
CodePoints == { 101, 233, 769, 64257, 20013 }
\* e, and the two bytes of e-acute in UTF-8
Bytes == { 101, 195, 169 }
Keys == { "artist", "title" }

SeqsUpTo(S, n) == UNION { [1..k -> S] : k \in 0..n }

Texts ==
    { Unicode(cs) : cs \in SeqsUpTo(CodePoints, MaxTextLen) }
    \cup { Str(cs) : cs \in SeqsUpTo(Bytes, MaxTextLen) }

DictsOf(V) == UNION { { Dict(f) : f \in [K -> V] } : K \in SUBSET Keys }

\* values of the mappings: e-acute and "e" as unicode, "e" and e-acute as str
DictTexts ==
    { Unicode(<<233>>), Unicode(<<101>>), Str(<<101>>), Str(<<195, 169>>) }

Data ==
    Texts \cup DictsOf(DictTexts)
    \cup { Dict("title" :> d) : d \in DictsOf(DictTexts) }

(***************************************************************************)
(* RadioBaseMode.remove_accents                                            *)
(***************************************************************************)
Value(v) == [err |-> "none", val |-> v]
Raise(e) == [err |-> e, val |-> NoData]
NotCalled == [err |-> "notcalled", val |-> NoData]

IsAscii(c) == c < 128

\* unicode(data) on a str: decoded with the default codec, ASCII, strictly
ToUnicode(d) ==
    IF \A i \in 1..Len(d.chars) : IsAscii(d.chars[i])
    THEN Value(Unicode(d.chars))
    ELSE Raise("UnicodeDecodeError")

\* compatibility decomposition of one code point
Decompose(c) ==
    CASE c = 233 -> <<101, 769>>
      [] c = 64257 -> <<102, 105>>
      [] OTHER -> <<c>>

RECURSIVE Flatten(_)
Flatten(ss) == IF ss = <<>> THEN <<>> ELSE Head(ss) \o Flatten(Tail(ss))

\* unicodedata.normalize('NFKD', data)
NormalizeNFKD(cs) == Flatten([i \in 1..Len(cs) |-> Decompose(cs[i])])

\* nfkd_form.encode('ASCII', 'ignore'): a str of the ASCII code points
EncodeAsciiIgnore(cs) == Str(SelectSeq(cs, IsAscii))

RECURSIVE remove_accents(_)
remove_accents(data) ==
    IF data.type = "dict"
    THEN LET r == [k \in DOMAIN data.map |-> remove_accents(data.map[k])]
         IN  IF \E k \in DOMAIN r : r[k].err # "none"
             THEN Raise((r[CHOOSE k \in DOMAIN r : r[k].err # "none"]).err)
             ELSE Value(Dict([k \in DOMAIN r |-> r[k].val]))
    ELSE LET u == IF data.type = "str" THEN ToUnicode(data) ELSE Value(data)
         IN  IF u.err # "none"
             THEN u
             ELSE Value(EncodeAsciiIgnore(NormalizeNFKD(u.val.chars)))

\* remove_accents(x)
CallRemoveAccents(x) ==
    /\ san_x' = x
    /\ san_once' = remove_accents(x)
    /\ san_twice' = NotCalled
    /\ lastop' = "remove_accents"
    /\ err' = san_once'.err
    /\ UNCHANGED <<pi, led_pin, has_q, display_q, menu, modemenu, nodes,
                   pin_modes, writes, toggles, shows>>

\* remove_accents(remove_accents(x)), once the inner call has returned
CallRemoveAccentsAgain ==
    /\ san_once.err = "none"
    /\ san_twice = NotCalled
    /\ san_twice' = remove_accents(san_once.val)
    /\ lastop' = "remove_accents"
    /\ err' = san_twice'.err
    /\ UNCHANGED <<pi, led_pin, has_q, display_q, menu, modemenu, nodes,
                   pin_modes, writes, toggles, shows, san_x, san_once>>

(***************************************************************************)
(* RadioBaseMode.__init__, toggle_led and show_text                        *)
(***************************************************************************)
NoPin == -1
Pins == { 0, 4, 17 }

\* truth value of self.led_pin: None and 0 are false
PinTruthy(p) == p # NoPin /\ p # 0

\* __init__ "Prepare LED": the pins set to OUTPUT
PreparedPins(gpio, pin) == IF gpio /\ PinTruthy(pin) THEN { pin } ELSE {}

\* int(state)
IntOf(state) == IF state THEN 1 ELSE 0

toggle_led(state) ==
    /\ Len(toggles) < MaxCalls
    /\ toggles' = Append(toggles, state)
    /\ lastop' = "toggle_led"
    /\ IF PinTruthy(led_pin)
       THEN IF pi
            THEN /\ writes' = Append(writes, <<led_pin, IntOf(state)>>)
                 /\ err' = "none"
            ELSE /\ err' = "AttributeError"
                 /\ UNCHANGED writes
       ELSE /\ err' = "none"
            /\ UNCHANGED writes
    /\ UNCHANGED <<pi, led_pin, has_q, display_q, menu, modemenu, nodes,
                   pin_modes, shows, san_x, san_once, san_twice>>

ShowKeys == { "artist", "title" }
ShowTexts ==
    { Unicode(<<233>>), Unicode(<<20013, 101>>), Str(<<101>>), Str(<<195, 169>>) }

show_text(key, text) ==
    /\ Len(shows) < MaxCalls
    /\ shows' = Append(shows, <<key, text>>)
    /\ lastop' = "show_text"
    /\ IF has_q
       THEN LET r == remove_accents(text)
            IN  /\ err' = r.err
                /\ IF r.err = "none"
                   THEN display_q' = Append(display_q, <<key, r.val>>)
                   ELSE UNCHANGED display_q
       ELSE /\ err' = "none"
            /\ UNCHANGED display_q
    /\ UNCHANGED <<pi, led_pin, has_q, menu, modemenu, nodes, pin_modes,
                   writes, toggles, san_x, san_once, san_twice>>

(***************************************************************************)
(* Specifications.  Init is the instance after __init__; each              *)
(* specification draws the part of the instance its methods read and       *)
(* leaves the rest at the constructor's defaults.                          *)
(***************************************************************************)
Constructed(gpio, pin, q, m) ==
    /\ pi = gpio
    /\ led_pin = pin
    /\ has_q = q
    /\ display_q = <<>>
    /\ menu = m
    /\ modemenu = 0
    /\ nodes = <<>>
    /\ pin_modes = PreparedPins(gpio, pin)
    /\ writes = <<>>
    /\ toggles = <<>>
    /\ shows = <<>>
    /\ san_x = NoData
    /\ san_once = NotCalled
    /\ san_twice = NotCalled
    /\ lastop = "__init__"
    /\ err = "none"

Init ==
    \E gpio \in BOOLEAN, pin \in Pins \cup { NoPin }, q \in BOOLEAN :
        LET Given(m) == Constructed(gpio, pin, q, m)
        IN  ForSomeMenu(Given)

CallToggleLed == \E state \in BOOLEAN : toggle_led(state)
CallShowText == \E key \in ShowKeys, text \in ShowTexts : show_text(key, text)
CallSanitize == \E x \in Data : CallRemoveAccents(x)

Next ==
    \/ build_menu
    \/ CallToggleLed
    \/ CallShowText
    \/ CallSanitize
    \/ CallRemoveAccentsAgain

Spec == Init /\ [][Next]_vars

\* The methods work on disjoint fields of the instance (build_menu on menu
\* and modemenu, toggle_led on the pin, show_text on the queue), so each is
\* checked under a specification of its own.

\* the menu builder, over every menu of the bound
MenuGiven(m) == Constructed(FALSE, NoPin, FALSE, m)
InitMenu == ForSomeMenu(MenuGiven)
NextMenu == build_menu
SpecMenu == InitMenu /\ [][NextMenu]_vars

\* the LED, over every way of constructing the instance
InitLed ==
    \E gpio \in BOOLEAN, pin \in Pins \cup { NoPin } :
        Constructed(gpio, pin, FALSE, UnsetMenu)
NextLed == CallToggleLed
SpecLed == InitLed /\ [][NextLed]_vars

\* the display queue
InitDisplay == \E q \in BOOLEAN : Constructed(FALSE, NoPin, q, UnsetMenu)
NextDisplay == CallShowText
SpecDisplay == InitDisplay /\ [][NextDisplay]_vars

\* the sanitizer
InitSanitize == Constructed(FALSE, NoPin, FALSE, UnsetMenu)
NextSanitize == CallSanitize \/ CallRemoveAccentsAgain
SpecSanitize == InitSanitize /\ [][NextSanitize]_vars

(***************************************************************************)
(* Properties of the menu builder (SpecMenu).                              *)
(***************************************************************************)
NodeIds == 1..Len(nodes)
IsBackItem(h, c) == h[c].cls = "RadioMenuItem" /\ h[c].target = BackTarget

\* the children of n that are not synthesized Back items
OwnItems(h, n) ==
    LET NotBack(c) == ~IsBackItem(h, c)
    IN  SelectSeq(h[n].items, NotBack)

\* the children of n, and of every submenu below it, follow the entries es
RECURSIVE ChildrenFollow(_, _, _)
ChildrenFollow(h, n, es) ==
    LET kids == OwnItems(h, n)
    IN  /\ Len(kids) = Len(es)
        /\ \A i \in 1..Len(es) :
              /\ h[kids[i]].text = es[i].text
              /\ IF h[kids[i]].cls = "RadioSubmenu"
                 THEN ChildrenFollow(h, kids[i], es[i].target.entries)
                 ELSE /\ h[kids[i]].cls = "RadioMenuItem"
                      /\ h[kids[i]].target = es[i].target

\* the nodes that hold s among their items
Holders(s) == { p \in NodeIds : \E i \in 1..Len(nodes[p].items) : nodes[p].items[i] = s }

\* C1: after build_menu the children of the root and of every submenu, the
\* synthesized Back items aside, are the entries of the corresponding level
\* of self.menu, one child per entry, in the order of the entries.
C1_ChildOrderMatchesSpec ==
    modemenu # 0 => ChildrenFollow(nodes, modemenu, menu.entries)

\* a tree whose root has several children, one of them a submenu with several
C1_Witness ==
    /\ modemenu # 0
    /\ Len(nodes[modemenu].items) >= 2
    /\ \E i \in 1..Len(nodes[modemenu].items) :
          /\ nodes[nodes[modemenu].items[i]].cls = "RadioSubmenu"
          /\ Len(OwnItems(nodes, nodes[modemenu].items[i])) >= 2

\* C2: every submenu of the built tree, also one built from an empty list,
\* ends with a synthesized Back item, holds exactly one such item, and
\* activating it yields the node that holds the submenu.
C2_SubmenuEndsWithOneBack ==
    \A s \in NodeIds :
        nodes[s].cls = "RadioSubmenu" =>
            LET items == nodes[s].items
            IN  /\ items # <<>>
                /\ IsBackItem(nodes, items[Len(items)])
                /\ nodes[items[Len(items)]].text = "Back"
                /\ Cardinality({ i \in 1..Len(items) : IsBackItem(nodes, items[i]) }) = 1
                /\ Holders(s) # {}
                /\ Holders(s) = { Activate(nodes, items[Len(items)]) }

\* a submenu built from an empty list inside another submenu
C2_Witness ==
    \E s \in NodeIds, p \in NodeIds :
        /\ nodes[s].cls = "RadioSubmenu"
        /\ nodes[p].cls = "RadioSubmenu"
        /\ s \in { nodes[p].items[i] : i \in 1..Len(nodes[p].items) }
        /\ Len(nodes[s].items) = 1

\* C3: the root of the built tree holds no synthesized Back item.
C3_RootHasNoBack ==
    modemenu # 0 =>
        \A i \in 1..Len(nodes[modemenu].items) :
            ~IsBackItem(nodes, nodes[modemenu].items[i])

\* a root over a submenu that holds a submenu
C3_Witness ==
    /\ modemenu # 0
    /\ \E i \in 1..Len(nodes[modemenu].items) :
          LET s == nodes[modemenu].items[i]
          IN  /\ nodes[s].cls = "RadioSubmenu"
              /\ \E j \in 1..Len(nodes[s].items) :
                    nodes[nodes[s].items[j]].cls = "RadioSubmenu"

\* C4: with self.menu empty or absent, build_menu returns and leaves the
\* mode with a root that has no children.
C4_EmptyOrAbsentMenuGivesEmptyRoot ==
    (lastop = "build_menu" /\ (menu.type \in { "unset", "None" } \/ menu.entries = <<>>))
        => /\ err = "none"
           /\ modemenu # 0
           /\ nodes[modemenu].items = <<>>

\* a target that is no action and no nested menu, at any depth
RECURSIVE HasMalformedTarget(_)
HasMalformedTarget(es) ==
    \E i \in 1..Len(es) :
        \/ ~es[i].pair
        \/ es[i].target.type = "int"
        \/ es[i].target.type \in { "list", "tuple" }
              /\ HasMalformedTarget(es[i].target.entries)

\* C5: with a target in self.menu that is neither an action nor a well-formed
\* nested menu, build_menu raises and stores no tree on the mode.
C5_MalformedTargetRaises ==
    (lastop = "build_menu" /\ menu.type = "list" /\ HasMalformedTarget(menu.entries))
        => /\ err # "none"
           /\ modemenu = 0

\* C9: a target that is a sequence of pairs becomes a submenu; no nested menu
\* is stored as the action of an item.
C9_NoNestedMenuStoredAsAction ==
    \A n \in NodeIds :
        nodes[n].cls = "RadioMenuItem" => nodes[n].target.type \notin { "list", "tuple" }

(***************************************************************************)
(* Properties of the LED (SpecLed).                                        *)
(***************************************************************************)
\* C7: on an instance holding a GPIO handle, for every pin number given as
\* led_pin, toggle_led(True) then toggle_led(False) issue exactly the writes
\* (pin, 1), (pin, 0); with no pin given no call issues a write.
C7_TwoWritesPerPin ==
    /\ (pi /\ led_pin # NoPin /\ toggles = <<TRUE, FALSE>>)
          => writes = << <<led_pin, 1>>, <<led_pin, 0>> >>
    /\ led_pin = NoPin => writes = <<>>

\* C10: however the instance was constructed, toggle_led returns without
\* raising, and every write goes to a pin the constructor set to OUTPUT.
C10_ToggleNeverRaises ==
    /\ lastop = "toggle_led" => err = "none"
    /\ \A i \in 1..Len(writes) : writes[i][1] \in pin_modes

(***************************************************************************)
(* Properties of the display queue (SpecDisplay).                          *)
(***************************************************************************)
\* C8: with a queue, the queue holds one pair (key, remove_accents(text)) per
\* show_text call, in call order; without one, the calls leave it empty.
C8_QueueHoldsEveryCall ==
    IF has_q
    THEN /\ Len(display_q) = Len(shows)
         /\ \A i \in 1..Len(shows) :
               display_q[i] = <<shows[i][1], remove_accents(shows[i][2]).val>>
    ELSE display_q = <<>>

\* the calls that returned are queued in call order, sanitized
ReturnedShows ==
    LET Returns(c) == remove_accents(c[2]).err = "none"
    IN  SelectSeq(shows, Returns)
Display_QueueHoldsReturnedCalls ==
    IF has_q
    THEN /\ Len(display_q) = Len(ReturnedShows)
         /\ \A i \in 1..Len(ReturnedShows) :
               display_q[i] = <<ReturnedShows[i][1],
                                remove_accents(ReturnedShows[i][2]).val>>
    ELSE display_q = <<>>

(***************************************************************************)
(* Properties of the sanitizer (SpecSanitize).                             *)
(***************************************************************************)
\* C6: for every text or nested mapping of texts x, remove_accents(x) and
\* remove_accents(remove_accents(x)) return, and the two results are equal.
C6_SanitizeIdempotent ==
    san_once # NotCalled =>
        /\ san_once.err = "none"
        /\ san_twice # NotCalled =>
              (san_twice.err = "none" /\ san_twice.val = san_once.val)

\* where the first call returns, the second returns the same value
Sanitize_IdempotentWhereReturned ==
    san_twice # NotCalled =>
        (san_twice.err = "none" /\ san_twice.val = san_once.val)

====
